---- MODULE Spec2Model ----
(***************************************************************************)
(* Model of the GitHub Actions workflows of the jdat_notebooks repository: *)
(*   - "Build HTML on merge"  (prepare_matrix, execute-notebooks,          *)
(*     generate_html)                                                      *)
(*   - "Deprecate Notebook"   (deprecate)                                  *)
(* File names, patterns and shell words are sequences of one-character     *)
(* strings, so that globbing, dirname, IFS splitting and sort are computed  *)
(* on the characters as the shell computes them.                            *)
(***************************************************************************)
EXTENDS Integers, Sequences, FiniteSets, TLC

VARIABLES
    pr,          \* the pull_request_target event: NoPR or [changed, merged]
    triggered,   \* "none" | "run" (a workflow run was created) | "filtered"
    prepare,     \* prepare_matrix: job status
    files,       \* set-matrix: the bash array files
    notebooks,   \* set-matrix: the bash array notebooks
    outputs,     \* prepare_matrix: its job outputs (has_notebooks, matrix)
    exec,        \* execute-notebooks: job status
    jobs,        \* execute-notebooks: one record per matrix entry
    html,        \* generate_html: job status
    ghStorage,   \* notebooks stored on branch gh-storage by this run
    published,   \* TRUE once the GitHub Pages action has published _build/html
    dpc,         \* Deprecate Notebook: position of the deprecate job
    dinput,      \* Deprecate Notebook: inputs.notebook_name
    denv,        \* Deprecate Notebook: env.notebook_path (GITHUB_ENV)
    tree,        \* Deprecate Notebook: working-tree notebooks, path index -> content
    tree0,       \* Deprecate Notebook: the notebooks as checked out
    now,         \* Deprecate Notebook: the UTC clock, [day, sec]
    tagTime,     \* Deprecate Notebook: the clock when 'Add deprecated tag' ran
    attempts,    \* Deprecate Notebook: push attempts made
    committed,   \* Deprecate Notebook: set of paths committed
    pushed,      \* Deprecate Notebook: TRUE once a push succeeded
    cf,          \* IFU continuum fit: the cell's variables (cube, loop indices, output cubes)
    sv,          \* Specviz subsets: the GUI's subsets, the kernel namespace, the cell position
    rv,          \* review of a pull request: its state, its files, the CI build
    dl           \* preimaging download cell: the zip file, the working directory, the position

bvars == <<pr, triggered, prepare, files, notebooks, outputs, exec, jobs, html,
           ghStorage, published>>
dvars == <<dpc, dinput, denv, tree, tree0, now, tagTime, attempts, committed, pushed>>
vars == <<pr, triggered, prepare, files, notebooks, outputs, exec, jobs, html,
          ghStorage, published,
          dpc, dinput, denv, tree, tree0, now, tagTime, attempts, committed, pushed,
          cf, sv, rv, dl>>

\* the variables of the notebook cells and of the review process
nvars == <<cf, sv, rv, dl>>

-----------------------------------------------------------------------------
(* Characters and strings *)

\* The characters that occur in file names and patterns, in byte (C locale) order.
Alphabet == <<" ", "*", ",", "-", ".", "/",
              "a", "b", "c", "d", "e", "f", "g", "h", "i", "j", "k", "l", "m",
              "n", "o", "p", "q", "r", "s", "t", "u", "v", "w", "x", "y", "z">>

Ord(c) == CHOOSE i \in 1..Len(Alphabet) : Alphabet[i] = c

RECURSIVE StrLess(_, _)
\* byte-wise lexicographic order, as sort(1) compares lines in the C locale
StrLess(s, t) ==
    IF t = <<>> THEN FALSE
    ELSE IF s = <<>> THEN TRUE
    ELSE IF Head(s) = Head(t) THEN StrLess(Tail(s), Tail(t))
    ELSE Ord(Head(s)) < Ord(Head(t))

RECURSIVE SplitOn(_, _)
\* the fields of s between occurrences of a character of seps; empty fields kept
SplitOn(s, seps) ==
    IF \A i \in 1..Len(s) : s[i] \notin seps THEN <<s>>
    ELSE LET k == CHOOSE i \in 1..Len(s) :
                      s[i] \in seps /\ \A j \in 1..(i - 1) : s[j] \notin seps
         IN  <<SubSeq(s, 1, k - 1)>> \o SplitOn(SubSeq(s, k + 1, Len(s)), seps)

RECURSIVE JoinWith(_, _)
JoinWith(ss, sep) ==
    IF ss = <<>> THEN <<>>
    ELSE IF Len(ss) = 1 THEN ss[1]
    ELSE ss[1] \o sep \o JoinWith(Tail(ss), sep)

RECURSIVE Concat(_)
Concat(ss) == IF ss = <<>> THEN <<>> ELSE Head(ss) \o Concat(Tail(ss))

NonEmpty(ss) == SelectSeq(ss, LAMBDA w : w # <<>>)

RECURSIVE FnMatch(_, _)
\* fnmatch(3) without FNM_PATHNAME: '*' matches any string, '/' included.
\* This is bash's [[ $file == pattern ]] and find's -name.
FnMatch(p, s) ==
    IF p = <<>> THEN s = <<>>
    ELSE IF Head(p) = "*"
         THEN FnMatch(Tail(p), s) \/ (s # <<>> /\ FnMatch(p, Tail(s)))
         ELSE s # <<>> /\ Head(s) = Head(p) /\ FnMatch(Tail(p), Tail(s))

RECURSIVE GlobSegs(_, _)
\* a path glob, pattern and path given as lists of segments: a segment "**"
\* matches zero or more directories, '*' inside a segment matches no '/'
GlobSegs(ps, fs) ==
    IF ps = <<>> THEN fs = <<>>
    ELSE IF Head(ps) = <<"*", "*">>
         THEN GlobSegs(Tail(ps), fs) \/ (fs # <<>> /\ GlobSegs(ps, Tail(fs)))
         ELSE fs # <<>> /\ FnMatch(Head(ps), Head(fs)) /\ GlobSegs(Tail(ps), Tail(fs))

PathGlob(pat, path) == GlobSegs(SplitOn(pat, {"/"}), SplitOn(path, {"/"}))

LastSlash(s) == CHOOSE i \in 1..Len(s) : s[i] = "/" /\ \A j \in (i + 1)..Len(s) : s[j] # "/"

HasSlash(s) == \E i \in 1..Len(s) : s[i] = "/"

\* dirname(1) of a relative path without trailing slash
Dirname(s) == IF HasSlash(s) THEN SubSeq(s, 1, LastSlash(s) - 1) ELSE <<".">>

Basename(s) == IF HasSlash(s) THEN SubSeq(s, LastSlash(s) + 1, Len(s)) ELSE s


-----------------------------------------------------------------------------
(* The repository at the merge commit *)

IPYNB == <<".", "i", "p", "y", "n", "b">>

REQUIREMENTS == <<"r", "e", "q", "u", "i", "r", "e", "m", "e", "n", "t", "s",
                  ".", "t", "x", "t">>

NOTEBOOKS == <<"n", "o", "t", "e", "b", "o", "o", "k", "s">>

\* The regular files of the checkout, in the order git lists them.
\*   notebooks/a/m y.ipynb   notebooks/a/pre-requirements.txt
\*   notebooks/a/requirements.txt   notebooks/a/s/z.ipynb   notebooks/a/x.ipynb
\*   notebooks/b/requirements.txt   r.ipynb   requirements.txt
RepoTree ==
    << NOTEBOOKS \o <<"/", "a", "/", "m", " ", "y">> \o IPYNB,
       NOTEBOOKS \o <<"/", "a", "/", "p", "r", "e", "-">> \o REQUIREMENTS,
       NOTEBOOKS \o <<"/", "a", "/">> \o REQUIREMENTS,
       NOTEBOOKS \o <<"/", "a", "/", "s", "/", "z">> \o IPYNB,
       NOTEBOOKS \o <<"/", "a", "/", "x">> \o IPYNB,
       NOTEBOOKS \o <<"/", "b", "/">> \o REQUIREMENTS,
       <<"r">> \o IPYNB,
       REQUIREMENTS >>

RepoFiles == {RepoTree[i] : i \in 1..Len(RepoTree)}

\* a path as the shell resolves it from the repository root: a leading ./ dropped
Resolve(p) == IF Len(p) >= 2 /\ p[1] = "." /\ p[2] = "/" THEN SubSeq(p, 3, Len(p)) ELSE p

FileExists(p) == Resolve(p) \in RepoFiles

\* the largest number of files a pull request of the model changes
MaxChanged == 2

NoPR == [changed |-> {}, merged |-> FALSE, closed |-> FALSE]

-----------------------------------------------------------------------------
(* on: pull_request_target, types [closed], paths *)

TriggerPaths == { <<"*", "*", "/">> \o IPYNB,
                  <<"*", "*", "/">> \o REQUIREMENTS }

\* the workflow's paths filter: some changed file matches some pattern
PathsFilter(changed) ==
    \E i \in changed : \E p \in TriggerPaths : PathGlob(p, RepoTree[i])

-----------------------------------------------------------------------------
(* prepare_matrix: step changed-files *)

ChangedFilesPatterns == { <<"*", "*", "/", "*">> \o IPYNB,
                          <<"*", "*", "/">> \o REQUIREMENTS }

\* steps.get-changed-files.outputs.all_changed_files: the changed files that
\* match the files patterns, joined by the separator ","
AllChangedFiles(changed) ==
    LET idx  == SelectSeq([i \in 1..Len(RepoTree) |-> i],
                          LAMBDA i : i \in changed
                                     /\ \E p \in ChangedFilesPatterns : PathGlob(p, RepoTree[i]))
    IN  JoinWith([k \in 1..Len(idx) |-> RepoTree[idx[k]]], <<",">>)

-----------------------------------------------------------------------------
(* prepare_matrix: step set-matrix *)

\* IFS=',' read -r -a files <<< "$list"
ReadArray(list) ==
    IF list = <<>> THEN <<>>
    ELSE LET fs == SplitOn(list, {","})
         IN  IF fs[Len(fs)] = <<>> THEN SubSeq(fs, 1, Len(fs) - 1) ELSE fs

\* find "$dir" -maxdepth 1 -type f -name '*.ipynb'
FindNotebooks(dir) ==
    LET inDir(p) == IF dir = <<".">> THEN ~HasSlash(p)
                    ELSE HasSlash(p) /\ Dirname(p) = Resolve(dir)
        hits == SelectSeq(RepoTree, LAMBDA p : inDir(p) /\ FnMatch(<<"*">> \o IPYNB, Basename(p)))
    IN  [k \in 1..Len(hits) |-> dir \o <<"/">> \o Basename(hits[k])]

\* first loop: every changed file that is a notebook
ChangedNotebooks(fs) == SelectSeq(fs, LAMBDA f : FnMatch(<<"*">> \o IPYNB, f))

\* second loop: the notebooks of the folder of every changed requirements.txt
RequirementsNotebooks(fs) ==
    LET reqs == SelectSeq(fs, LAMBDA f : FnMatch(<<"*">> \o REQUIREMENTS, f))
    IN  Concat([k \in 1..Len(reqs) |-> FindNotebooks(Dirname(reqs[k]))])

\* as if the second loop were not guarded by notebook_changed
SelectNotebooksUnguarded(fs) == ChangedNotebooks(fs) \o RequirementsNotebooks(fs)

\* the array notebooks after both loops
SelectNotebooks(fs) ==
    LET notebook_changed == ChangedNotebooks(fs) # <<>>
    IN  IF notebook_changed THEN ChangedNotebooks(fs) ELSE RequirementsNotebooks(fs)

RECURSIVE SortSet(_)
SortSet(S) ==
    IF S = {} THEN <<>>
    ELSE LET m == CHOOSE x \in S : \A y \in S \ {x} : StrLess(x, y)
         IN  <<m>> \o SortSet(S \ {m})

\* printf "%s\n" "${nbs[@]}" | sort -u : with no argument printf prints one empty line
SortUnique(nbs) ==
    LET lines == IF nbs = <<>> THEN {<<>>} ELSE {nbs[k] : k \in 1..Len(nbs)}
    IN  SortSet(lines)

\* unique_notebooks=($(...)): the output is split into words at IFS (space, newline)
UniqueNotebooks(nbs) ==
    NonEmpty(SplitOn(JoinWith(SortUnique(nbs), <<"\n">>), {" ", "\n"}))

\* printf '%s\n' "${unique[@]}" | jq -R . | jq -s . : one JSON string per line
MatrixJson(unique) == SplitOn(JoinWith(unique, <<"\n">>), {"\n"})

\* as if the emptiness test counted the lines of sort -u instead of the words
SetMatrixOutputsCountLines(nbs) ==
    IF Len(SortUnique(nbs)) = 0
    THEN [has_notebooks |-> "false", matrix |-> <<>>]
    ELSE [has_notebooks |-> "true", matrix |-> MatrixJson(UniqueNotebooks(nbs))]

\* the step outputs written to GITHUB_OUTPUT
SetMatrixOutputs(nbs) ==
    LET unique_notebooks == UniqueNotebooks(nbs)
    IN  IF Len(unique_notebooks) = 0
        THEN [has_notebooks |-> "false", matrix |-> <<>>]
        ELSE [has_notebooks |-> "true", matrix |-> MatrixJson(unique_notebooks)]

-----------------------------------------------------------------------------
(* Job scheduling of the workflow run *)

Terminal == {"success", "failure", "skipped"}

NoOutputs == [has_notebooks |-> "", matrix |-> <<>>]

\* jobs.<job>.needs
Needs(job) ==
    CASE job = "prepare_matrix"    -> {}
      [] job = "execute-notebooks" -> {"prepare_matrix"}
      [] job = "generate_html"     -> {"execute-notebooks"}

Result(job) ==
    CASE job = "prepare_matrix"    -> prepare
      [] job = "execute-notebooks" -> exec
      [] job = "generate_html"     -> html

\* jobs.<job>.outputs: only prepare_matrix declares outputs
JobOutputs(job) == IF job = "prepare_matrix" THEN outputs ELSE NoOutputs

\* the expression needs.<dep>.outputs.has_notebooks evaluated in job: the needs
\* context holds the direct dependencies of the job only, anything else is null
NeedsHasNotebooks(job, dep) ==
    IF dep \in Needs(job) THEN JobOutputs(dep).has_notebooks ELSE ""

\* a job is evaluated once all the jobs it needs have completed
NeedsCompleted(job) == \A d \in Needs(job) : Result(d) \in Terminal

\* the implicit success() of an if: without a status function
NeedsSucceeded(job) == \A d \in Needs(job) : Result(d) = "success"

\* as if prepare_matrix had no if:
PrepareMatrixIfMissing == TRUE

\* prepare_matrix.if
PrepareMatrixIf == pr.merged

PrepareMatrixRuns == NeedsSucceeded("prepare_matrix") /\ PrepareMatrixIf

\* execute-notebooks.if
ExecuteNotebooksIf ==
    pr.merged = TRUE /\ NeedsHasNotebooks("execute-notebooks", "prepare_matrix") = "true"

ExecuteNotebooksRuns == NeedsSucceeded("execute-notebooks") /\ ExecuteNotebooksIf

\* generate_html.if
GenerateHtmlIf ==
    pr.merged = TRUE /\ NeedsHasNotebooks("generate_html", "prepare_matrix") = "true"

\* as if the job were declared with if: always() && merged
GenerateHtmlRunsAlways == pr.merged = TRUE

GenerateHtmlRuns == NeedsSucceeded("generate_html") /\ GenerateHtmlIf

-----------------------------------------------------------------------------
(* Actions of "Build HTML on merge" *)

MAX_RETRIES == 5

DIdle ==
    /\ dpc = "off"
    /\ dinput = <<>>
    /\ denv = <<>>
    /\ tree = <<>>
    /\ tree0 = <<>>
    /\ now = [day |-> 0, sec |-> 0]
    /\ tagTime = [day |-> 0, sec |-> 0]
    /\ attempts = 0
    /\ committed = {}
    /\ pushed = FALSE

BIdle ==
    /\ pr = NoPR
    /\ triggered = "none"
    /\ prepare = "pending"
    /\ files = <<>>
    /\ notebooks = <<>>
    /\ outputs = NoOutputs
    /\ exec = "pending"
    /\ jobs = <<>>
    /\ html = "pending"
    /\ ghStorage = {}
    /\ published = FALSE

\* no notebook cell is being run and no pull request is under review
NIdle ==
    /\ cf = [pc |-> "off"]
    /\ sv = [pc |-> "off"]
    /\ rv = [pc |-> "off"]
    /\ dl = [pc |-> "off"]

Init == BIdle /\ DIdle /\ NIdle

\* A pull request that changed the given files is closed, merged or not.
ClosePullRequest ==
    /\ ~pr.closed
    /\ \E changed \in SUBSET (1..Len(RepoTree)), merged \in BOOLEAN :
         /\ changed # {}
         /\ Cardinality(changed) <= MaxChanged
         /\ pr' = [changed |-> changed, merged |-> merged, closed |-> TRUE]
         /\ triggered' = IF PathsFilter(changed) THEN "run" ELSE "filtered"
    /\ UNCHANGED <<prepare, files, notebooks, outputs, exec, jobs, html, ghStorage, published>>
    /\ UNCHANGED dvars
    /\ UNCHANGED nvars

\* Job prepare_matrix: checkout, changed-files, set-matrix.
PrepareMatrix ==
    /\ triggered = "run"
    /\ prepare = "pending"
    /\ NeedsCompleted("prepare_matrix")
    /\ IF PrepareMatrixRuns
       THEN \E ok \in BOOLEAN :
              IF ok
              THEN LET fs  == ReadArray(AllChangedFiles(pr.changed))
                       nbs == SelectNotebooks(fs)
                   IN  /\ files' = fs
                       /\ notebooks' = nbs
                       /\ outputs' = SetMatrixOutputs(nbs)
                       /\ prepare' = "success"
              ELSE /\ prepare' = "failure"
                   /\ UNCHANGED <<files, notebooks, outputs>>
       ELSE /\ prepare' = "skipped"
            /\ UNCHANGED <<files, notebooks, outputs>>
    /\ UNCHANGED <<pr, triggered, exec, jobs, html, ghStorage, published>>
    /\ UNCHANGED dvars
    /\ UNCHANGED nvars

\* Job execute-notebooks is evaluated and expanded over the matrix.
ExecuteNotebooksStart ==
    /\ triggered = "run"
    /\ exec = "pending"
    /\ NeedsCompleted("execute-notebooks")
    /\ IF ExecuteNotebooksRuns
       THEN LET matrix == JobOutputs("prepare_matrix").matrix
            IN  IF matrix = <<>>
                THEN exec' = "failure" /\ UNCHANGED jobs
                ELSE /\ exec' = "running"
                     /\ jobs' = [j \in 1..Len(matrix) |->
                                   [notebook |-> matrix[j], pc |-> "execute", log |-> <<>>]]
       ELSE exec' = "skipped" /\ UNCHANGED jobs
    /\ UNCHANGED <<pr, triggered, prepare, files, notebooks, outputs, html, ghStorage, published>>
    /\ UNCHANGED dvars
    /\ UNCHANGED nvars

\* the commands of step 'Install Dependencies (if requirements.txt exists) and
\* Execute Notebook' up to and including the nbconvert call
InstallAndExecute(notebook) ==
    LET dir == Dirname(notebook)
        req == dir \o <<"/">> \o REQUIREMENTS
    IN  (IF FileExists(req) THEN <<[op |-> "pip install -r", arg |-> req]>> ELSE <<>>)
        \o <<[op |-> "pip install", arg |-> <<"n", "o", "t", "e", "b", "o", "o", "k">>]>>
        \o <<[op |-> "nbconvert --execute", arg |-> notebook]>>

\* Matrix job j: checkout, setup python, install the requirements, run the notebook.
\* A command may fail (bash -e stops at it); nbconvert fails when the file is missing.
ExecuteNotebook(j) ==
    /\ exec = "running"
    /\ jobs[j].pc = "execute"
    /\ LET cmds == InstallAndExecute(jobs[j].notebook)
       IN  \E n \in 1..Len(cmds), ok \in BOOLEAN :
             /\ ok => n = Len(cmds) /\ FileExists(jobs[j].notebook)
             /\ jobs' = [jobs EXCEPT ![j].log = SubSeq(cmds, 1, n),
                                     ![j].pc = IF ok THEN "commit" ELSE "failure"]
    /\ UNCHANGED <<pr, triggered, prepare, files, notebooks, outputs, exec, html, ghStorage, published>>
    /\ UNCHANGED dvars
    /\ UNCHANGED nvars

\* Matrix job j: 'Commit modified file on current branch' and 'Checkout only the
\* file to the target branch'; git may fail (nothing to commit, no gh-storage).
CommitNotebook(j) ==
    /\ exec = "running"
    /\ jobs[j].pc = "commit"
    /\ \E ok \in BOOLEAN :
         jobs' = [jobs EXCEPT ![j].pc = IF ok THEN "push" ELSE "failure"]
    /\ UNCHANGED <<pr, triggered, prepare, files, notebooks, outputs, exec, html, ghStorage, published>>
    /\ UNCHANGED dvars
    /\ UNCHANGED nvars

\* Matrix job j: 'Commit and push modifications to target branch'. The commit may
\* fail; the retry loop ends with status 0 whether or not a push went through.
PushNotebook(j) ==
    /\ exec = "running"
    /\ jobs[j].pc = "push"
    /\ \E commitOk \in BOOLEAN, failed \in 0..MAX_RETRIES :
         IF commitOk
         THEN /\ jobs' = [jobs EXCEPT ![j].pc = "success"]
              /\ ghStorage' = IF failed < MAX_RETRIES
                              THEN ghStorage \cup {jobs[j].notebook} ELSE ghStorage
         ELSE /\ jobs' = [jobs EXCEPT ![j].pc = "failure"]
              /\ UNCHANGED ghStorage
    /\ UNCHANGED <<pr, triggered, prepare, files, notebooks, outputs, exec, html, published>>
    /\ UNCHANGED dvars
    /\ UNCHANGED nvars

\* Job execute-notebooks completes when every matrix job has (fail-fast: false).
ExecuteNotebooksDone ==
    /\ exec = "running"
    /\ \A j \in 1..Len(jobs) : jobs[j].pc \in {"success", "failure"}
    /\ exec' = IF \A j \in 1..Len(jobs) : jobs[j].pc = "success" THEN "success" ELSE "failure"
    /\ UNCHANGED <<pr, triggered, prepare, files, notebooks, outputs, jobs, html, ghStorage, published>>
    /\ UNCHANGED dvars
    /\ UNCHANGED nvars

\* Job generate_html: evaluated once execute-notebooks has completed; when it
\* runs it builds the book and the GitHub Pages action publishes it.
GenerateHtml ==
    /\ triggered = "run"
    /\ html = "pending"
    /\ NeedsCompleted("generate_html")
    /\ IF GenerateHtmlRuns
       THEN \E ok \in BOOLEAN :
              /\ html' = IF ok THEN "success" ELSE "failure"
              /\ published' = ok
       ELSE html' = "skipped" /\ UNCHANGED published
    /\ UNCHANGED <<pr, triggered, prepare, files, notebooks, outputs, exec, jobs, ghStorage>>
    /\ UNCHANGED dvars
    /\ UNCHANGED nvars

Next ==
    \/ ClosePullRequest
    \/ PrepareMatrix
    \/ ExecuteNotebooksStart
    \/ \E j \in 1..Len(jobs) : ExecuteNotebook(j)
    \/ \E j \in 1..Len(jobs) : CommitNotebook(j)
    \/ \E j \in 1..Len(jobs) : PushNotebook(j)
    \/ ExecuteNotebooksDone
    \/ GenerateHtml

Spec == Init /\ [][Next]_vars

-----------------------------------------------------------------------------
(* Properties of "Build HTML on merge" *)

EndsWith(p, suffix) ==
    Len(p) >= Len(suffix) /\ SubSeq(p, Len(p) - Len(suffix) + 1, Len(p)) = suffix

\* the folder of a file, as its list of directory names
Folder(p) == LET segs == SplitOn(p, {"/"}) IN SubSeq(segs, 1, Len(segs) - 1)

ChangedFiles == {RepoTree[i] : i \in pr.changed}

ChangedIpynb == {p \in ChangedFiles : EndsWith(p, IPYNB)}

ChangedRequirements == {p \in ChangedFiles : Basename(p) = REQUIREMENTS}

\* the notebooks the changed files call for
WantedNotebooks ==
    IF ChangedIpynb # {} THEN ChangedIpynb
    ELSE {q \in RepoFiles : EndsWith(q, IPYNB)
                            /\ \E r \in ChangedRequirements : Folder(q) = Folder(r)}

SelectedNotebooks == {Resolve(notebooks[k]) : k \in 1..Len(notebooks)}

\* C1: generate_html has started only if execute-notebooks and every one of its
\* matrix jobs ended in success, and once a matrix job has failed no HTML is
\* published.
C1_HtmlOnlyAfterAllExecuted ==
    /\ html \in {"success", "failure"} =>
           /\ exec = "success"
           /\ jobs # <<>>
           /\ \A j \in 1..Len(jobs) : jobs[j].pc = "success"
    /\ (\E j \in 1..Len(jobs) : jobs[j].pc = "failure") =>
           ~published /\ html \in {"pending", "skipped"}

C1_Witness ==
    /\ exec = "failure"
    /\ \E j \in 1..Len(jobs) : jobs[j].pc = "failure"
    /\ \E j \in 1..Len(jobs) : jobs[j].pc = "success"
    /\ html = "skipped"

\* C2: for a merged pull request for which prepare_matrix set has_notebooks to
\* 'true' and every matrix job succeeded, generate_html is not skipped once it
\* has been evaluated: its condition is true and the job runs.
C2_HtmlRunsAfterSuccess ==
    ( /\ pr.merged
      /\ prepare = "success"
      /\ outputs.has_notebooks = "true"
      /\ exec = "success"
      /\ html \in Terminal ) => html # "skipped"

\* C3: a closed pull request whose changed files the changed-files step would
\* match (a notebook or a requirements.txt) triggers the workflow.
C3_TriggeredWhenChangedFilesMatch ==
    (pr.closed /\ AllChangedFiles(pr.changed) # <<>>) => triggered = "run"

\* C4: after set-matrix the selected notebooks are the changed .ipynb files if
\* there is one, and otherwise the .ipynb files directly in the folder of each
\* changed requirements.txt.
C4_Selection ==
    prepare = "success" => SelectedNotebooks = WantedNotebooks

C4_Witness ==
    /\ prepare = "success"
    /\ ChangedIpynb = {}
    /\ RepoTree[3] \in ChangedFiles
    /\ Len(notebooks) = 2
    /\ RepoTree[4] \notin SelectedNotebooks

\* C5: the matrix holds every selected notebook path exactly once and nothing
\* that is not the path of a selected notebook.
C5_MatrixIsSelection ==
    prepare = "success" =>
        /\ {outputs.matrix[k] : k \in 1..Len(outputs.matrix)}
              = {notebooks[k] : k \in 1..Len(notebooks)}
        /\ \A k, l \in 1..Len(outputs.matrix) :
              outputs.matrix[k] = outputs.matrix[l] => k = l

\* C6: when the changed files yield no notebook, set-matrix outputs
\* has_notebooks=false and matrix=[], and no execute-notebooks job and no
\* generate_html job runs.
C6_NothingRunsWithoutNotebooks ==
    (prepare = "success" /\ WantedNotebooks = {}) =>
        /\ outputs = [has_notebooks |-> "false", matrix |-> <<>>]
        /\ exec \in {"pending", "skipped"}
        /\ jobs = <<>>
        /\ html \in {"pending", "skipped"}
        /\ ghStorage = {}
        /\ ~published

C6_Witness ==
    /\ prepare = "success"
    /\ WantedNotebooks = {}
    /\ ChangedRequirements # {}
    /\ exec = "skipped"
    /\ html = "skipped"

\* C7: for a pull request closed without being merged no job runs: no notebook
\* is executed, nothing is pushed to gh-storage, no HTML is published.
C7_UnmergedRunsNothing ==
    (pr.closed /\ ~pr.merged) =>
        /\ prepare \in {"pending", "skipped"}
        /\ exec \in {"pending", "skipped"}
        /\ html \in {"pending", "skipped"}
        /\ jobs = <<>>
        /\ ghStorage = {}
        /\ ~published

C7_Witness ==
    /\ pr.closed /\ ~pr.merged
    /\ triggered = "run"
    /\ ChangedIpynb # {}
    /\ prepare = "skipped" /\ exec = "skipped" /\ html = "skipped"

PipInstalled(log, file) ==
    {k \in 1..Len(log) : log[k] = [op |-> "pip install -r", arg |-> file]}

Executed(log) == {k \in 1..Len(log) : log[k].op = "nbconvert --execute"}

\* C8: a matrix job whose notebook folder holds a pre-requirements.txt installs
\* it before the folder's requirements.txt and before it executes the notebook.
C8_PreRequirementsFirst ==
    \A j \in 1..Len(jobs) :
        LET dir == Dirname(jobs[j].notebook)
            pre == dir \o <<"/", "p", "r", "e", "-">> \o REQUIREMENTS
            req == dir \o <<"/">> \o REQUIREMENTS
        IN  (FileExists(jobs[j].notebook) /\ FileExists(pre) /\ Executed(jobs[j].log) # {}) =>
               \E k \in PipInstalled(jobs[j].log, pre) :
                   /\ \A e \in Executed(jobs[j].log) : k < e
                   /\ \A r \in PipInstalled(jobs[j].log, req) : k < r

-----------------------------------------------------------------------------
(* "Deprecate Notebook": the clock and date(1) *)

\* the clock counts days from 2023-01-01 and seconds of the day
EpochYear == 2023

\* the last day the deprecate job of the model may start on
MaxDay == 430

\* the times of day the model samples: midnight, noon, the last second
DaySeconds == {0, 43200, 86399}

IsLeap(y) == (y % 4 = 0 /\ y % 100 # 0) \/ y % 400 = 0

DaysInMonth(y, m) ==
    IF m = 2 THEN (IF IsLeap(y) THEN 29 ELSE 28)
    ELSE IF m \in {4, 6, 9, 11} THEN 30 ELSE 31

RECURSIVE CivilFrom(_, _, _)
\* the date n days after the first of month m of year y
CivilFrom(y, m, n) ==
    IF n >= DaysInMonth(y, m)
    THEN IF m = 12 THEN CivilFrom(y + 1, 1, n - DaysInMonth(y, m))
                   ELSE CivilFrom(y, m + 1, n - DaysInMonth(y, m))
    ELSE [Y |-> y, M |-> m, D |-> n + 1]

\* date -u +"%Y-%m-%dT%H:%M:%SZ" at clock t: the fields of the printed text
Timestamp(t) ==
    LET c == CivilFrom(EpochYear, 1, t.day)
    IN  [Y |-> c.Y, M |-> c.M, D |-> c.D,
         h |-> t.sec \div 3600, m |-> (t.sec % 3600) \div 60, s |-> t.sec % 60]

RECURSIVE DaysBeforeYear(_)
DaysBeforeYear(y) ==
    IF y <= EpochYear THEN 0
    ELSE DaysBeforeYear(y - 1) + (IF IsLeap(y - 1) THEN 366 ELSE 365)

RECURSIVE DaysBeforeMonth(_, _)
DaysBeforeMonth(y, m) ==
    IF m <= 1 THEN 0 ELSE DaysBeforeMonth(y, m - 1) + DaysInMonth(y, m - 1)

\* timegm(3) of broken-down fields, the day of the month not normalised
TimeGm(f) ==
    [day |-> DaysBeforeYear(f.Y) + DaysBeforeMonth(f.Y, f.M) + (f.D - 1),
     sec |-> f.h * 3600 + f.m * 60 + f.s]

\* as if the script asked date for "+ 1 month"
RemovalDateOneMonth(ts) ==
    Timestamp(TimeGm(IF ts.M = 12 THEN [ts EXCEPT !.Y = ts.Y + 1, !.M = 1]
                                  ELSE [ts EXCEPT !.M = ts.M + 1]))

\* date -u -d "$timestamp + 30 days" +"%Y-%m-%dT%H:%M:%SZ": the text is parsed,
\* 30 is added to the day of the month and timegm normalises the result
RemovalDate(ts) == Timestamp(TimeGm([ts EXCEPT !.D = ts.D + 30]))

\* time passes while a step runs: the clock stays or moves to the next sample
Later(t) ==
    {t, IF t.sec = 0 THEN [t EXCEPT !.sec = 43200]
        ELSE IF t.sec = 43200 THEN [t EXCEPT !.sec = 86399]
        ELSE [day |-> t.day + 1, sec |-> 0]}

-----------------------------------------------------------------------------
(* "Deprecate Notebook": the checkout *)

Absent == [status |-> FALSE, timestamp |-> <<>>, removal_date |-> <<>>]

\* indices in RepoTree of the notebooks of the checkout
NotebookIdx == {i \in 1..Len(RepoTree) : EndsWith(RepoTree[i], IPYNB)}

\* the JSON documents of the notebooks as checked out: their metadata and cells
Checkout ==
    [i \in NotebookIdx |->
        [metadata |-> [kernelspec |-> "python3", deprecated |-> Absent],
         cells    |-> IF i = 1 THEN <<[cell_type |-> "markdown", metadata |-> [deprecation |-> FALSE], source |-> <<"title">>],
                                     [cell_type |-> "code", metadata |-> [deprecation |-> FALSE], source |-> <<"import">>]>>
                      ELSE <<[cell_type |-> "code", metadata |-> [deprecation |-> FALSE], source |-> <<"run">>]>>]]

\* inputs.notebook_name offered to workflow_dispatch:
\*   x.ipynb   m y.ipynb   r.ipynb   q.ipynb   requirements.txt   x*   *.ipynb
DInputs ==
    { <<"x">> \o IPYNB,
      <<"m", " ", "y">> \o IPYNB,
      <<"r">> \o IPYNB,
      <<"q">> \o IPYNB,
      REQUIREMENTS,
      <<"x", "*">>,
      <<"*">> \o IPYNB }

\* find ./notebooks -name "$NOTEBOOK_NAME" -type f
FindByName(name) ==
    LET under(p) == LET segs == SplitOn(p, {"/"}) IN Len(segs) > 1 /\ segs[1] = NOTEBOOKS
        hits == SelectSeq(RepoTree, LAMBDA p : under(p) /\ FnMatch(name, Basename(p)))
    IN  [k \in 1..Len(hits) |-> <<".", "/">> \o hits[k]]

\* NOTEBOOK_PATH=$(find ...): the lines of the output
NotebookPath(name) == JoinWith(FindByName(name), <<"\n">>)

\* the runner reads GITHUB_ENV line by line: every line must hold a '='
EnvFileValid(text) ==
    \A k \in 1..Len(SplitOn(text, {"\n"})) :
        \E c \in 1..Len(SplitOn(text, {"\n"})[k]) : SplitOn(text, {"\n"})[k][c] = "="

\* the index in RepoTree of the file a path names
IndexOf(path) == CHOOSE i \in 1..Len(RepoTree) : RepoTree[i] = Resolve(path)

-----------------------------------------------------------------------------
(* Actions of "Deprecate Notebook" *)

MAX_PUSH_RETRIES == 10

DInit ==
    /\ dpc = "find"
    /\ dinput \in DInputs
    /\ denv = <<>>
    /\ tree = Checkout
    /\ tree0 = Checkout
    /\ now \in [day : 0..MaxDay, sec : DaySeconds]
    /\ tagTime = [day |-> 0, sec |-> 0]
    /\ attempts = 0
    /\ committed = {}
    /\ pushed = FALSE

InitDeprecate == BIdle /\ DInit /\ NIdle

\* Step 'Find notebook path'.
FindNotebookPath ==
    /\ dpc = "find"
    /\ LET NOTEBOOK_PATH == NotebookPath(dinput)
           envLine == <<"n", "o", "t", "e", "b", "o", "o", "k", "_", "p", "a", "t", "h", "=">>
                      \o NOTEBOOK_PATH
       IN  IF NOTEBOOK_PATH = <<>>
           THEN dpc' = "failed_find" /\ UNCHANGED denv
           ELSE IF EnvFileValid(envLine)
                THEN dpc' = "tag" /\ denv' = NOTEBOOK_PATH
                ELSE dpc' = "failed_find" /\ UNCHANGED denv
    /\ now' \in Later(now)
    /\ UNCHANGED <<dinput, tree, tree0, tagTime, attempts, committed, pushed>>
    /\ UNCHANGED bvars
    /\ UNCHANGED nvars

\* Step 'Add deprecated tag with timestamp and removal date'.
AddDeprecatedTag ==
    /\ dpc = "tag"
    /\ LET notebook_path == denv
           timestamp     == Timestamp(now)
           removal_date  == RemovalDate(timestamp)
           i             == IndexOf(notebook_path)
       IN  tree' = [tree EXCEPT ![i].metadata.deprecated =
                       [status |-> TRUE, timestamp |-> timestamp, removal_date |-> removal_date]]
    /\ tagTime' = now
    /\ now' \in Later(now)
    /\ dpc' = "banner"
    /\ UNCHANGED <<dinput, denv, tree0, attempts, committed, pushed>>
    /\ UNCHANGED bvars
    /\ UNCHANGED nvars

\* the banner put after the cells instead of before them
InsertBannerLast(cells, BANNER_CELL) == cells \o <<BANNER_CELL>>

\* jq ".cells |= [$BANNER_CELL] + ."
InsertBanner(cells, BANNER_CELL) == <<BANNER_CELL>> \o cells

\* Step 'Add deprecation banner with timestamp and removal date'.
AddDeprecationBanner ==
    /\ dpc = "banner"
    /\ LET notebook_path == denv
           timestamp     == Timestamp(now)
           removal       == RemovalDate(timestamp)
           removal_date  == [Y |-> removal.Y, M |-> removal.M, D |-> removal.D]
           BANNER_CELL   == [cell_type |-> "markdown",
                             metadata  |-> [deprecation |-> TRUE],
                             source    |-> <<[scheduled |-> timestamp, removal |-> removal_date]>>]
           i             == IndexOf(notebook_path)
       IN  tree' = [tree EXCEPT ![i].cells = InsertBanner(@, BANNER_CELL)]
    /\ now' \in Later(now)
    /\ dpc' = "commit"
    /\ UNCHANGED <<dinput, denv, tree0, tagTime, attempts, committed, pushed>>
    /\ UNCHANGED bvars
    /\ UNCHANGED nvars

\* Step 'Commit and push modifications to target branch': git add, git commit.
CommitDeprecated ==
    /\ dpc = "commit"
    /\ \E ok \in BOOLEAN :
         IF ok THEN dpc' = "push" /\ committed' = committed \cup {Resolve(denv)}
               ELSE dpc' = "failed_push" /\ UNCHANGED committed
    /\ now' \in Later(now)
    /\ UNCHANGED <<dinput, denv, tree, tree0, tagTime, attempts, pushed>>
    /\ UNCHANGED bvars
    /\ UNCHANGED nvars

\* a loop that ends like the retry loop of "Build HTML on merge": no exit 1
AfterPushNoExit(ok, n) ==
    IF ok \/ n = MAX_PUSH_RETRIES THEN "done" ELSE "push"

\* where the script stands after the n-th git push: break on success, next
\* round on failure, and after the last round 'exit 1' as success is false
AfterPush(ok, n) ==
    IF ok THEN "done"
    ELSE IF n = MAX_PUSH_RETRIES THEN "failed_push" ELSE "push"

\* One round of the retry loop: git fetch, git rebase, git push.  The script
\* runs under 'bash -e': a failing fetch or rebase ends it with that status
\* before the push of the round is made.
PushAttempt ==
    /\ dpc = "push"
    /\ attempts < MAX_PUSH_RETRIES
    /\ \E fetched \in BOOLEAN, ok \in BOOLEAN :
         IF ~fetched
         THEN dpc' = "failed_push" /\ UNCHANGED <<attempts, pushed>>
         ELSE /\ attempts' = attempts + 1
              /\ pushed' = ok
              /\ dpc' = AfterPush(ok, attempts + 1)
    /\ UNCHANGED <<dinput, denv, tree, tree0, now, tagTime, committed>>
    /\ UNCHANGED bvars
    /\ UNCHANGED nvars

NextDeprecate ==
    \/ FindNotebookPath
    \/ AddDeprecatedTag
    \/ AddDeprecationBanner
    \/ CommitDeprecated
    \/ PushAttempt

SpecDeprecate == InitDeprecate /\ [][NextDeprecate]_vars

-----------------------------------------------------------------------------
(* Properties of "Deprecate Notebook" *)

\* the regular files under ./notebooks whose name is the input
NamedNotebook == {p \in RepoFiles : SplitOn(p, {"/"})[1] = NOTEBOOKS /\ HasSlash(p)
                                    /\ Basename(p) = dinput}

\* C9: if no regular file named notebook_name exists under ./notebooks, the job
\* fails in 'Find notebook path' and no notebook is modified, committed or
\* pushed.
C9_MissingNotebookFails ==
    (NamedNotebook = {} /\ dpc # "find") =>
        /\ dpc = "failed_find"
        /\ tree = tree0
        /\ committed = {}
        /\ ~pushed

\* C10: after 'Add deprecated tag' the target notebook's metadata.deprecated has
\* status true, the UTC time of the step as timestamp and the time 30 days
\* later as removal_date, and by this step nothing else of the notebook, and
\* no other notebook, has changed.
C10_DeprecatedTag ==
    dpc = "banner" =>
        LET i == IndexOf(denv)
        IN  /\ tree[i].metadata.deprecated =
                   [status       |-> TRUE,
                    timestamp    |-> Timestamp(tagTime),
                    removal_date |-> Timestamp([tagTime EXCEPT !.day = tagTime.day + 30])]
            /\ tree[i].cells = tree0[i].cells
            /\ tree[i].metadata.kernelspec = tree0[i].metadata.kernelspec
            /\ DOMAIN tree[i].metadata = DOMAIN tree0[i].metadata
            /\ \A k \in NotebookIdx \ {i} : tree[k] = tree0[k]

C10_Witness ==
    /\ dpc = "banner"
    /\ tree[IndexOf(denv)].metadata.deprecated.timestamp
          = [Y |-> 2024, M |-> 1, D |-> 31, h |-> 12, m |-> 0, s |-> 0]
    /\ tree[IndexOf(denv)].metadata.deprecated.removal_date
          = [Y |-> 2024, M |-> 3, D |-> 1, h |-> 12, m |-> 0, s |-> 0]

\* the cells of a notebook that carry the deprecation flag
Flagged(cells) == {k \in 1..Len(cells) : cells[k].metadata.deprecation}

\* C11: 'Add deprecation banner' inserts exactly one markdown cell flagged
\* metadata.deprecation = true as the first cell of the notebook, and every
\* cell the notebook had is still there, unchanged and in the same order,
\* after it; no other notebook is touched.
C11_BannerFirst ==
    dpc = "commit" =>
        LET i == IndexOf(denv)
        IN  /\ Len(tree[i].cells) = Len(tree0[i].cells) + 1
            /\ tree[i].cells[1].cell_type = "markdown"
            /\ tree[i].cells[1].metadata.deprecation = TRUE
            /\ Cardinality(Flagged(tree[i].cells)) = Cardinality(Flagged(tree0[i].cells)) + 1
            /\ \A k \in 1..Len(tree0[i].cells) : tree[i].cells[k + 1] = tree0[i].cells[k]
            /\ \A n \in NotebookIdx \ {i} : tree[n] = tree0[n]

\* the banner has been put in front of a notebook of two cells
C11_Witness ==
    /\ dpc = "commit"
    /\ Len(tree0[IndexOf(denv)].cells) = 2
    /\ Len(tree[IndexOf(denv)].cells) = 3
    /\ tree[IndexOf(denv)].cells[3].source = <<"import">>

\* the step has ended: 0 after a break out of the loop, non-zero otherwise
ExitStatus == IF dpc = "done" THEN 0 ELSE 1

\* C12: the push step makes at most 10 push attempts, makes none after a push
\* succeeded, and ends with a non-zero exit status exactly when no attempt
\* succeeded.
C12_PushRetries ==
    /\ attempts <= 10
    /\ (dpc = "push" => ~pushed /\ attempts < 10)
    /\ (dpc \in {"done", "failed_push"} => (ExitStatus # 0 <=> ~pushed))

\* ten pushes were rejected and the step has failed
C12_Witness ==
    /\ dpc = "failed_push"
    /\ attempts = 10
    /\ ~pushed

-----------------------------------------------------------------------------
(* notebooks/IFU_cube_continuum_fit/NGC4151_FeII_ContinuumFit.ipynb:
   the continuum fit for every spaxel.  Indices are Python's, from 0. *)

MaxN == 5
Nz == 3
continuummin == 0
continuummax == 2

\* range(a, b)
Range(a, b) == a..(b - 1)

\* cube.shape = (nz, ny, nx) of the data cubes read
Shapes == [nz : {Nz}, ny : 3..MaxN, nx : 3..MaxN]

\* data cubes: a level, a slope along the wavelength axis, a spatial pattern
Cubes(shape) ==
    {[k \in Range(0, shape.nz), j \in Range(0, shape.ny), i \in Range(0, shape.nx)
         |-> level + slope * k + ((i + j) % 2)] : level \in 0..2, slope \in 0..1}

\* np.zeros([nz, ny, nx])
Zeros(shape) ==
    [k \in Range(0, shape.nz), j \in Range(0, shape.ny), i \in Range(0, shape.nx) |-> 0]

\* the wavelength axis, in units of its step from its first value
wave == [k \in Range(0, Nz) |-> k]

\* np.polyfit(wave[continuummin:continuummax], flux1[continuummin:continuummax], 1)
\* over a window of two points: the line through them, <<slope, intercept>>
Polyfit(flux1) ==
    LET a == continuummin
        b == continuummax - 1
        m == (flux1[b] - flux1[a]) \div (wave[b] - wave[a])
    IN  <<m, flux1[a] - m * wave[a]>>

\* np.poly1d(cont_fit)(wave)
Poly1d(cont_fit) == [k \in Range(0, Nz) |-> cont_fit[1] * wave[k] + cont_fit[2]]

\* for i in range(1, nx-2): for j in range(1, ny-2):
Spaxels(shape) == [is |-> Range(1, shape.nx - 2), js |-> Range(1, shape.ny - 2)]

\* the cube has been read and its shape taken
InitContinuum ==
    /\ BIdle /\ DIdle
    /\ sv = [pc |-> "off"] /\ rv = [pc |-> "off"] /\ dl = [pc |-> "off"]
    /\ \E shape \in Shapes : \E cube \in Cubes(shape) :
         cf = [pc |-> "cell", shape |-> shape, cube |-> cube,
               cont_sub_cube |-> << >>, cont_psf_cube |-> << >>, i |-> 0, j |-> 0]

\* the cell up to its loop: both output cubes are allocated as zeros
AllocateCubes ==
    /\ cf.pc = "cell"
    /\ LET r == Spaxels(cf.shape)
       IN  cf' = [cf EXCEPT !.cont_sub_cube = Zeros(cf.shape),
                            !.cont_psf_cube = Zeros(cf.shape),
                            !.pc = IF r.is = {} \/ r.js = {} THEN "done" ELSE "loop",
                            !.i = 1, !.j = 1]
    /\ UNCHANGED <<sv, rv, dl>>
    /\ UNCHANGED bvars
    /\ UNCHANGED dvars

\* one pass of the loop body, for spaxel (j, i), and the step to the next
FitSpaxel ==
    /\ cf.pc = "loop"
    /\ LET r         == Spaxels(cf.shape)
           i         == cf.i
           j         == cf.j
           flux1     == [k \in Range(0, cf.shape.nz) |-> cf.cube[k, j, i]]
           cont_fit  == Polyfit(flux1)
           continuum == Poly1d(cont_fit)
           sub       == [x \in DOMAIN cf.cont_sub_cube |->
                            IF x[2] = j /\ x[3] = i THEN flux1[x[1]] - continuum[x[1]]
                            ELSE cf.cont_sub_cube[x]]
           psf       == [x \in DOMAIN cf.cont_psf_cube |->
                            IF x[2] = j /\ x[3] = i THEN continuum[x[1]]
                            ELSE cf.cont_psf_cube[x]]
       IN  cf' = [cf EXCEPT !.cont_sub_cube = sub,
                            !.cont_psf_cube = psf,
                            !.j  = IF j + 1 \in r.js THEN j + 1 ELSE 1,
                            !.i  = IF j + 1 \in r.js THEN i ELSE i + 1,
                            !.pc = IF j + 1 \in r.js \/ i + 1 \in r.is THEN "loop" ELSE "done"]
    /\ UNCHANGED <<sv, rv, dl>>
    /\ UNCHANGED bvars
    /\ UNCHANGED dvars

NextContinuum ==
    \/ AllocateCubes
    \/ FitSpaxel

SpecContinuum == InitContinuum /\ [][NextContinuum]_vars

\* C13: when the loop has ended, every spaxel 0 <= i < nx, 0 <= j < ny has
\* been fitted and subtracted: at every wavelength cont_sub_cube +
\* cont_psf_cube is the cube.
C13_EverySpaxelFitted ==
    cf.pc = "done" =>
        \A x \in DOMAIN cf.cube :
            cf.cont_sub_cube[x] + cf.cont_psf_cube[x] = cf.cube[x]

-----------------------------------------------------------------------------
(* notebooks/NIRISS/niriss_imaging/niriss-imaging-tutorial.ipynb, Specviz
   demo: the subsets of the GUI and the regions extracted from them.
   A name of the kernel is << >> while undefined and <<value>> once bound;
   a spectrum is the set of its <<wavelength, flux>> points. *)

\* the labels the GUI gives to the subsets drawn, in the order drawn
Labels == <<"Subset 1", "Subset 2">>

\* spectral regions <<lower, upper>> a user can draw, on the wavelength grid
Regions == {<<1, 2>>, <<2, 3>>, <<2, 4>>, <<3, 4>>}

\* dataout = viz.get_data('NIRISS F150W'): the flux at each grid point
dataout == {<<1, 5>>, <<2, 9>>, <<3, 7>>, <<4, 3>>}

\* cont_region = SpectralRegion(1.598*u.um, 1.621*u.um)
cont_region == <<2, 3>>

\* specutils extract_region(spectrum, region)
ExtractRegion(spectrum, region) ==
    {pt \in spectrum : region[1] <= pt[1] /\ pt[1] <= region[2]}

\* viz.plugins['Subset Tools'].get_regions(): a dict, label -> region
GetRegions(gui) == gui

\* d[key] of a dict: the value, or KeyError
GetItem(d, key) ==
    IF key \in DOMAIN d THEN [raised |-> "", value |-> <<d[key]>>]
    ELSE [raised |-> "KeyError", value |-> << >>]

\* evaluating a name: the value, or NameError
Name(ns, n) ==
    IF ns[n] # << >> THEN [raised |-> "", value |-> ns[n]]
    ELSE [raised |-> "NameError", value |-> << >>]

\* an except clause that prints and binds nothing
ExceptKeyErrorPrintOnly(ns) == ns

\* except KeyError: print(...); spec1d_el_viz = spec1d_el_code
ExceptKeyErrorViz(ns) == [ns EXCEPT !.spec1d_el_viz = ns.spec1d_el_code]

\* Specviz is shown with the spectrum loaded; nothing is drawn yet
InitSpecviz ==
    /\ BIdle /\ DIdle
    /\ cf = [pc |-> "off"] /\ rv = [pc |-> "off"] /\ dl = [pc |-> "off"]
    /\ sv = [pc |-> "subsets", gui |-> << >>, human |-> FALSE, raised |-> "",
             ns |-> [region |-> << >>, spec1d_el_code |-> << >>, spec1d_el_viz |-> << >>]]

\* a person draws one more spectral region in the GUI, at any time
DrawSubset ==
    /\ sv.pc \in {"subsets", "code", "viz"}
    /\ Cardinality(DOMAIN sv.gui) < Len(Labels)
    /\ \E r \in Regions :
         sv' = [sv EXCEPT !.gui = [l \in {Labels[k] : k \in 1..(Cardinality(DOMAIN sv.gui) + 1)} |->
                                      IF l \in DOMAIN sv.gui THEN sv.gui[l] ELSE r],
                          !.human = TRUE]
    /\ UNCHANGED <<cf, rv, dl>>
    /\ UNCHANGED bvars
    /\ UNCHANGED dvars

\* Cell 'See the subsets defined in the GUI':
\*   try: region = plg_subsets.get_regions(); print(region['Subset 1'])
\*   except KeyError: print(...)
SeeSubsets ==
    /\ sv.pc = "subsets"
    /\ LET region == GetRegions(sv.gui)
           item   == GetItem(region, "Subset 1")
       IN  sv' = [sv EXCEPT !.ns.region = <<region>>,
                            !.raised = IF item.raised \in {"", "KeyError"} THEN "" ELSE item.raised,
                            !.pc = "code"]
    /\ UNCHANGED <<cf, rv, dl>>
    /\ UNCHANGED bvars
    /\ UNCHANGED dvars

\* Cell 'Select the same region programmatically'.
SelectProgrammatically ==
    /\ sv.pc = "code"
    /\ sv' = [sv EXCEPT !.ns.spec1d_el_code = <<ExtractRegion(dataout, cont_region)>>,
                        !.pc = "viz"]
    /\ UNCHANGED <<cf, rv, dl>>
    /\ UNCHANGED bvars
    /\ UNCHANGED dvars

\* Cell 'extract the spectrum in the region I defined in the GUI':
\*   try: spec1d_el_viz = extract_region(dataout, region['Subset 1'])
\*   except KeyError: ...; spec1d_el_viz = spec1d_el_code
ExtractGuiRegion ==
    /\ sv.pc = "viz"
    /\ LET region == Name(sv.ns, "region")
           item   == IF region.raised = "" THEN GetItem(region.value[1], "Subset 1")
                     ELSE region
       IN  sv' = [sv EXCEPT
                    !.ns = IF item.raised = ""
                           THEN [@ EXCEPT !.spec1d_el_viz = <<ExtractRegion(dataout, item.value[1])>>]
                           ELSE IF item.raised = "KeyError" THEN ExceptKeyErrorViz(@)
                           ELSE @,
                    !.raised = IF item.raised = "KeyError" THEN "" ELSE item.raised,
                    !.pc = "end"]
    /\ UNCHANGED <<cf, rv, dl>>
    /\ UNCHANGED bvars
    /\ UNCHANGED dvars

NextSpecviz ==
    \/ DrawSubset
    \/ SeeSubsets
    \/ SelectProgrammatically
    \/ ExtractGuiRegion

SpecSpecviz == InitSpecviz /\ [][NextSpecviz]_vars

\* C14: run without human interaction (no 'Subset 1' in the GUI), both
\* subset cells complete without raising, and afterwards spec1d_el_viz is
\* defined and equal to spec1d_el_code.
C14_NoInteractionFallsBack ==
    (sv.pc = "end" /\ ~sv.human) =>
        /\ sv.raised = ""
        /\ sv.ns.spec1d_el_viz # << >>
        /\ sv.ns.spec1d_el_viz = sv.ns.spec1d_el_code

\* the three cells have run with no subset in the GUI
C14_Witness ==
    /\ sv.pc = "end"
    /\ ~sv.human
    /\ sv.gui = << >>
    /\ sv.ns.region = << << >> >>
    /\ sv.ns.spec1d_el_viz = <<{<<2, 9>>, <<3, 7>>}>>

-----------------------------------------------------------------------------
(* notebooks/preimaging/preimaging_01_mirage.ipynb: the download cell *)

\* the files packed in preimaging.zip that the notebook reads afterwards,
\* in the order of the archive
Members == <<"preimaging/NRC21_pid1069_2018_rev2.xml",
             "preimaging/NRC21_pid1069_2018_rev2.pointing",
             "preimaging/all_filters_lmc.cat">>

MemberSet == {Members[k] : k \in 1..Len(Members)}

\* ./preimaging.zip in the working directory: not there, a complete archive,
\* or a file that is not a readable archive
ZipStates == {"absent", "archive", "broken"}

\* the working directory when the cell starts
InitDownload ==
    /\ BIdle /\ DIdle
    /\ cf = [pc |-> "off"] /\ sv = [pc |-> "off"] /\ rv = [pc |-> "off"]
    /\ \E z \in ZipStates : \E present \in SUBSET MemberSet :
         dl = [pc |-> "exists", boxfile |-> z, cwd |-> present,
               next |-> 1, raised |-> ""]

\* if not os.path.exists(boxfile):
PathExists ==
    /\ dl.pc = "exists"
    /\ dl' = [dl EXCEPT !.pc = IF dl.boxfile = "absent" THEN "urlretrieve" ELSE "done"]
    /\ UNCHANGED <<cf, sv, rv>>
    /\ UNCHANGED bvars
    /\ UNCHANGED dvars

\* urllib.request.urlretrieve(boxlink, boxfile): the file is written, or the
\* request raises
UrlRetrieve ==
    /\ dl.pc = "urlretrieve"
    /\ \E got \in {"archive", "broken", "URLError"} :
         dl' = IF got = "URLError"
               THEN [dl EXCEPT !.pc = "done", !.raised = got]
               ELSE [dl EXCEPT !.pc = "zipfile", !.boxfile = got]
    /\ UNCHANGED <<cf, sv, rv>>
    /\ UNCHANGED bvars
    /\ UNCHANGED dvars

\* zf = zipfile.ZipFile(boxfile, 'r')
OpenZipFile ==
    /\ dl.pc = "zipfile"
    /\ dl' = IF dl.boxfile = "archive"
             THEN [dl EXCEPT !.pc = "extractall"]
             ELSE [dl EXCEPT !.pc = "done", !.raised = "BadZipFile"]
    /\ UNCHANGED <<cf, sv, rv>>
    /\ UNCHANGED bvars
    /\ UNCHANGED dvars

\* zf.extractall(): member after member is written to the working directory;
\* writing one may raise
ExtractAll ==
    /\ dl.pc = "extractall"
    /\ \E ok \in BOOLEAN :
         dl' = IF ~ok
               THEN [dl EXCEPT !.pc = "done", !.raised = "OSError"]
               ELSE [dl EXCEPT !.cwd = @ \cup {Members[dl.next]},
                               !.next = @ + 1,
                               !.pc = IF dl.next = Len(Members) THEN "done" ELSE "extractall"]
    /\ UNCHANGED <<cf, sv, rv>>
    /\ UNCHANGED bvars
    /\ UNCHANGED dvars

NextDownload ==
    \/ PathExists
    \/ UrlRetrieve
    \/ OpenZipFile
    \/ ExtractAll

SpecDownload == InitDownload /\ [][NextDownload]_vars

\* C16: after the download cell has completed without error, the contents of
\* preimaging.zip have been extracted into the working directory, also when
\* preimaging.zip was already there before the cell ran.
C16_ExtractedAfterCell ==
    (dl.pc = "done" /\ dl.raised = "") =>
        MemberSet \subseteq dl.cwd

-----------------------------------------------------------------------------
(* The review of a pull request: the ci_validation workflow that builds the
   notebooks of a pull request, and the rule for merging, as the
   contribution guide and docs/submitting_notebooks.rst describe them. *)

\* the notebooks among the files a pull request changes
NotebooksOf(changed) == {p \in changed : EndsWith(p, IPYNB)}

\* a merge on the reviewers' approval alone
MergeOnApproval(r) == r.approved

\* "Once the all reviewers approve and the automated tests pass, the PR will
\* be merged"
MayMerge(r) == r.approved /\ r.ci = "passed"

\* no pull request yet
InitReview ==
    /\ BIdle /\ DIdle
    /\ cf = [pc |-> "off"] /\ sv = [pc |-> "off"] /\ dl = [pc |-> "off"]
    /\ rv = [pc |-> "none", changed |-> {}, ci |-> "none", rendered |-> {},
             approved |-> FALSE]

\* an author creates the Pull Request; the build starts by itself
CreatePullRequest ==
    /\ rv.pc = "none"
    /\ \E changed \in SUBSET RepoFiles :
         /\ Cardinality(changed) \in 1..MaxChanged
         /\ rv' = [rv EXCEPT !.pc = "open", !.changed = changed, !.ci = "queued"]
    /\ UNCHANGED <<cf, sv, dl>>
    /\ UNCHANGED bvars
    /\ UNCHANGED dvars

\* the author updates the PR with one more changed file; the build starts anew
UpdatePullRequest ==
    /\ rv.pc = "open"
    /\ Cardinality(rv.changed) < MaxChanged
    /\ \E f \in RepoFiles \ rv.changed :
         rv' = [rv EXCEPT !.changed = @ \cup {f}, !.ci = "queued",
                          !.rendered = {}]
    /\ UNCHANGED <<cf, sv, dl>>
    /\ UNCHANGED bvars
    /\ UNCHANGED dvars

\* the automatic testing infrastructure attempts to render the notebooks
BuildNotebooks ==
    /\ rv.pc = "open"
    /\ rv.ci = "queued"
    /\ \E ok \in BOOLEAN :
         rv' = IF ok THEN [rv EXCEPT !.ci = "passed", !.rendered = NotebooksOf(rv.changed)]
               ELSE [rv EXCEPT !.ci = "failed"]
    /\ UNCHANGED <<cf, sv, dl>>
    /\ UNCHANGED bvars
    /\ UNCHANGED dvars

\* the reviewers give their approval
Approve ==
    /\ rv.pc = "open"
    /\ ~rv.approved
    /\ rv' = [rv EXCEPT !.approved = TRUE]
    /\ UNCHANGED <<cf, sv, dl>>
    /\ UNCHANGED bvars
    /\ UNCHANGED dvars

\* the PR is merged into the official repository
MergePullRequest ==
    /\ rv.pc = "open"
    /\ MayMerge(rv)
    /\ rv' = [rv EXCEPT !.pc = "merged"]
    /\ UNCHANGED <<cf, sv, dl>>
    /\ UNCHANGED bvars
    /\ UNCHANGED dvars

NextReview ==
    \/ CreatePullRequest
    \/ UpdatePullRequest
    \/ BuildNotebooks
    \/ Approve
    \/ MergePullRequest

SpecReview == InitReview /\ [][NextReview]_vars

=============================================================================
